---------------------------- MODULE Spec2Model ----------------------------
(***************************************************************************)
(* A model of the Breakout game of src/src/main.rs (Bevy 0.9).             *)
(*                                                                         *)
(* Lengths are integers in units of 1/600000 of a world unit: U grid units  *)
(* per world unit.  Velocities are in units of 1/10000 world unit per       *)
(* second (V per world unit per second), so that the displacement of one   *)
(* tick, velocity * TIME_STEP with TIME_STEP = 1/60 s, is a whole number   *)
(* of grid units.  The one irrational quantity, the ball speed             *)
(* 400/sqrt(2) = 282.8427..., is 2828427 of these.  Durations are in units *)
(* of 1/600 s (T per second): the 1/60 s of TIME_STEP is 10, the 100 ms of *)
(* a particle's lifetime 60.                                               *)
(*                                                                         *)
(* One frame of the Bevy app is: the First stage (Events::update), the     *)
(* input update, then the Update stage, which runs one pass of the systems *)
(* registered for the current AppState, applies their command buffers, and *)
(* runs a further pass in the same frame whenever change_game_state has    *)
(* scheduled a state change (Bevy 0.9's state driver loops the stage).     *)
(* Each system is one action; the order of the systems inside a pass is    *)
(* constrained only by the .before() edges of main.                        *)
(***************************************************************************)
EXTENDS Integers, Sequences, FiniteSets, TLC

\* ------------------------------------------------------------- constants
\* TIME_STEP = 1/60: ticks per second.
TICKS_PER_SECOND == 60

\* Grid units per world unit.
U == TICKS_PER_SECOND * 10000

\* Velocity units per world unit per second; also the grid units per 1/60 of a
\* world unit, in which the constants named ..._U are given.
V == U \div TICKS_PER_SECOND

\* Duration units per second.
T == TICKS_PER_SECOND * 10

PLAYER_SIZE_X == 120
PLAYER_SIZE_Y == 20
GAP_BETWEEN_PLAYER_AND_FLOOR == 60
PLAYER_SPEED == 500
PLAYER_PADDING == 10
BALL_SIZE_XY == 30
\* INITIAL_BALL_DIRECTION.normalize() * BALL_SPEED = (282.8427, -282.8427), in
\* velocity units.
BALL_INITIAL_SPEED == 2828427
BALL_STARTING_X == 0
BALL_STARTING_Y == -150
WALL_THICKNESS == 10
LEFT_WALL == -450
RIGHT_WALL == 450
BOTTOM_WALL == -300
TOP_WALL == 300
ENEMY_SIZE_X == 60
ENEMY_SIZE_Y == 20
STARTING_ENEMY_X == -350
STARTING_ENEMY_Y == 250
ENEMY_STEP_X == 90
ENEMY_STEP_Y == 40
ENEMY_COLUMNS == 9
ENEMY_ROWS == 8
PARTICLE_SIZE_XY == 10
\* PARTICLE_LIFETIME, in milliseconds.
PARTICLE_LIFETIME == 100
\* SCALING_FACTOR = 0.9 world units, in 1/60 of a world unit.
SCALING_FACTOR_U == 54
\* The lava sprite: translation (0, -340.5), scale (1296.8, 40.2), in 1/60 of a
\* world unit.
LAVA_Y_U == -20430
LAVA_SIZE_X_U == 77808
LAVA_SIZE_Y_U == 2412
SCORE_PER_ENEMY == 50
\* gen_range(2..7)
PARTICLE_COUNT_MIN == 2
PARTICLE_COUNT_MAX == 6
\* gen_range(pos.x - 30.0..pos.x + 30.0), gen_range(pos.y - 20.0..pos.y + 20.0)
PARTICLE_SPREAD_X == 30
PARTICLE_SPREAD_Y == 20

\* ---------------------------------------------------------------- bounds
\* Passes of the InGame systems explored by Spec.
MaxTicks == 106
\* Leading frames of Spec in which a movement key (A or D) may be held.
MaxMoveFrames == 2
\* Passes explored by SpecPause.
MaxPauseTicks == 56
\* Frames of SpecPause in which Key1 or Key2 is pressed.
MaxPressFrames == 3
\* Passes explored by SpecPaddle, which leaves the movement keys free.
MaxPaddleTicks == 80

\* Passes explored by SpecReflect.
MaxReflectTicks == 2
\* Passes explored by SpecLive.
MaxLiveTicks == 60
\* Passes explored by SpecPlaced.
MaxPlacedTicks == 2
\* Passes explored by SpecLost, the leading frames in which it holds movement
\* keys, and the frames in which it presses state keys.
MaxLostTicks == 35
MaxLostMoves == 2
MaxLostPresses == 2

\* The longest frame time explored, in frames of 1/60 s.
MaxDeltaFrames == 6

\* The frame time of a frame that takes the 1/60 s TIME_STEP stands for.
FrameTime == T \div TICKS_PER_SECOND

\* Frame times (time.delta()) the time provider is taken to report: none (as
\* in the app's first frame), and every whole number of 1/60 s up to the bound.
DeltaSamples == {k * FrameTime : k \in 0..MaxDeltaFrames}

\* Duration::from_millis(PARTICLE_LIFETIME)
Lifetime == (PARTICLE_LIFETIME * T) \div 1000

\* ------------------------------------------------------------- helpers
Abs(n) == IF n < 0 THEN -n ELSE n

Min(a, b) == IF a < b THEN a ELSE b

Max(a, b) == IF a > b THEN a ELSE b

\* f32::clamp
Clamp(v, lo, hi) == Max(lo, Min(v, hi))

\* All orders (sequences without repetition) of the finite set S.
Orders(S) ==
    LET n == Cardinality(S)
    IN {f \in [1..n -> S] : \A i, j \in 1..n : i # j => f[i] # f[j]}

RECURSIVE Digits(_)
\* The decimal digits of n >= 0, most significant first.
Digits(n) ==
    IF n < 10 THEN <<n>> ELSE Append(Digits(n \div 10), n % 10)

\* format!("{0}", counter): the text written by update_score_board.
FormatCounter(n) == [i \in 1..Len(Digits(n)) |-> ToString(Digits(n)[i])]

\* The text "100.0" given to both scoreboard labels at creation.
InitialText == <<"1", "0", "0", ".", "0">>


\* -------------------------------------------------------------- geometry
\* left_bound and right_bound of player_movement.
LeftBound == (LEFT_WALL * U + (WALL_THICKNESS * U) \div 2) + (PLAYER_SIZE_X * U) \div 2 + PLAYER_PADDING * U

RightBound == (RIGHT_WALL * U - (WALL_THICKNESS * U) \div 2) - (PLAYER_SIZE_X * U) \div 2 - PLAYER_PADDING * U

\* paddle_y = BOTTOM_WALL + GAP_BETWEEN_PLAYER_AND_FLOOR
PaddleY == (BOTTOM_WALL + GAP_BETWEEN_PLAYER_AND_FLOOR) * U

\* Enemy::new's position for grid cell (i, j), and its enemy_id.
EnemyX(i) == (STARTING_ENEMY_X + ENEMY_STEP_X * i) * U

EnemyY(j) == (STARTING_ENEMY_Y - ENEMY_STEP_Y * j) * U

EnemyId(i, j) == i + j * ENEMY_COLUMNS

EnemyCount == ENEMY_COLUMNS * ENEMY_ROWS

\* bevy::sprite::collide_aabb::collide(a_pos, a_size, b_pos, b_size): "None" when
\* the boxes do not intersect, else the side of b that a hit: of the x and the y
\* classification the one with the smaller penetration depth.  The depth of an
\* Inside classification is -infinity, whose absolute value no depth is below.
Collide(ax, ay, aw, ah, bx, by, bw, bh) ==
    LET aMinX == ax - aw \div 2
        aMaxX == ax + aw \div 2
        aMinY == ay - ah \div 2
        aMaxY == ay + ah \div 2
        bMinX == bx - bw \div 2
        bMaxX == bx + bw \div 2
        bMinY == by - bh \div 2
        bMaxY == by + bh \div 2
        xSide == IF aMinX < bMinX /\ aMaxX > bMinX THEN "Left"
                 ELSE IF aMinX < bMaxX /\ aMaxX > bMaxX THEN "Right"
                 ELSE "Inside"
        xDepth == IF xSide = "Left" THEN Abs(bMinX - aMaxX) ELSE Abs(aMinX - bMaxX)
        ySide == IF aMinY < bMinY /\ aMaxY > bMinY THEN "Bottom"
                 ELSE IF aMinY < bMaxY /\ aMaxY > bMaxY THEN "Top"
                 ELSE "Inside"
        yDepth == IF ySide = "Bottom" THEN Abs(bMinY - aMaxY) ELSE Abs(aMinY - bMaxY)
    IN IF aMinX < bMaxX /\ aMaxX > bMinX /\ aMinY < bMaxY /\ aMaxY > bMinY
       THEN IF ySide # "Inside" /\ (xSide = "Inside" \/ yDepth < xDepth)
            THEN ySide
            ELSE xSide
       ELSE "None"

\* A reflection that ignores the direction the ball is travelling in.
ReflectUnconditional(side, v) ==
    <<IF side \in {"Left", "Right"} THEN -v[1] ELSE v[1],
      IF side \in {"Top", "Bottom"} THEN -v[2] ELSE v[2]>>

\* A reflection that stops the ball on the axis of the hit instead of turning it.
ReflectStopping(side, v) ==
    <<IF (side = "Left" /\ v[1] > 0) \/ (side = "Right" /\ v[1] < 0) THEN 0 ELSE v[1],
      IF (side = "Top" /\ v[2] < 0) \/ (side = "Bottom" /\ v[2] > 0) THEN 0 ELSE v[2]>>

\* The match on the collision side and the two conditional negations that end
\* check_for_collisions' loop body, on the velocity v = <<vx, vy>>.
Reflect(side, v) ==
    LET reflect_x == CASE side = "Left" -> v[1] > 0
                       [] side = "Right" -> v[1] < 0
                       [] OTHER -> FALSE
        reflect_y == CASE side = "Top" -> v[2] < 0
                       [] side = "Bottom" -> v[2] > 0
                       [] OTHER -> FALSE
    IN <<IF reflect_x THEN -v[1] ELSE v[1], IF reflect_y THEN -v[2] ELSE v[2]>>

\* A timer that finishes only once its elapsed time exceeds the duration.
TimerTickLate(timer, delta) ==
    IF timer.finished
    THEN timer
    ELSE LET e == timer.elapsed + delta
         IN [elapsed |-> Min(e, Lifetime), finished |-> e > Lifetime]

\* Timer::tick(delta) of a TimerMode::Once timer: a finished timer is left alone,
\* otherwise the elapsed time advances and is cut at the duration.
TimerTick(timer, delta) ==
    IF timer.finished
    THEN timer
    ELSE LET e == timer.elapsed + delta
         IN [elapsed |-> Min(e, Lifetime), finished |-> e >= Lifetime]

\* ----------------------------------------------------------------- state
VARIABLES
    appState,    \* State<AppState>: the current state, "InGame" or "Paused"
    scheduled,   \* State<AppState>: the state change queued by set(), or "None"
    fault,       \* TRUE once an unwrap() of change_game_state has panicked
    statics,     \* the walls and the lava: [id, kind, x, y, w, h]
    paddles,     \* Paddle entities: [id, x, y]
    balls,       \* Ball entities: [id, x, y, vx, vy]
    enemies,     \* Enemy entities: [id, n, x, y]
    boards,      \* Scoreboard labels: [id, text]
    particles,   \* Particle entities: [id, at, w, h, timer]
    counter,     \* ScoreboardCounter.counter
    evOld,       \* Events<GameOverEvent>: events sent in the previous frame
    evNew,       \* Events<GameOverEvent>: events sent in this frame
    unread,      \* per EventReader: the buffered events it has not read yet
    phase,       \* "idle" between frames, else the state whose pass is running
    pending,     \* the systems of the running pass that have not run yet
    held,        \* Input<KeyCode>::pressed: the movement keys held this frame,
                 \* Unread until player_movement reads them
    pressed,     \* Input<KeyCode>::just_pressed: Key1/Key2 pressed this frame
    commands,    \* the command buffers of the running pass
    serial,      \* entities reserved so far by the running pass
    tick,        \* completed InGame passes
    frameState,  \* the current state when the running frame began
    pressFrames, \* frames so far with Key1 or Key2 pressed
    hitLog,      \* the hits of the pass's check_for_collisions, in order
    evLog        \* events sent and read by the pass's systems

vars == <<appState, scheduled, fault, statics, paddles, balls, enemies, boards,
          particles, counter, evOld, evNew, unread, phase, pending, held,
          pressed, commands, serial, tick, frameState, pressFrames,
          hitLog, evLog>>

world == <<statics, paddles, balls, enemies, boards, particles, counter>>

\* ----------------------------------------------------------- the schedule
\* The systems of main's SystemSet::on_update(AppState::InGame), in the order
\* they are registered.
Registration ==
    <<"check_for_collisions", "player_movement", "ball_movement",
      "tick_particles_lifetime", "update_particles_size", "change_game_state",
      "update_score_board", "setup_resetable", "game_over">>

\* A schedule whose systems are not gated by the state.
SystemsOfAnyState(state) == {Registration[i] : i \in 1..Len(Registration)}

\* The systems that run in a pass of the given state.
SystemsOf(state) ==
    IF state = "InGame"
    THEN {Registration[i] : i \in 1..Len(Registration)}
    ELSE {"change_game_state"}

\* A schedule that leaves the movement systems unordered against the collision
\* check.
BeforeWithoutMovement == {<<"game_over", "setup_resetable">>}

\* The .before() edges of main: <<a, b>> means a runs before b.
Before ==
    {<<"player_movement", "check_for_collisions">>,
     <<"ball_movement", "check_for_collisions">>,
     <<"game_over", "setup_resetable">>}

\* Pairs of systems of which one reads, before the pass ends, what the other
\* writes: check_for_collisions reads the Transforms the movement systems write,
\* writes the counter update_score_board reads, and sends the events the two
\* readers read.  Every other pair touches disjoint data (commands are deferred
\* to the end of the pass), so its two orders give the same state.
Conflicts ==
    {{"check_for_collisions", "player_movement"},
     {"check_for_collisions", "ball_movement"},
     {"check_for_collisions", "update_score_board"},
     {"check_for_collisions", "setup_resetable"},
     {"check_for_collisions", "game_over"}}

\* s has not run and every system registered before() it has.
Runnable(s) ==
    /\ s \in pending
    /\ \A e \in Before : e[2] = s => e[1] \notin pending

\* s commutes with every system the executor could still run ahead of it.
Independent(s) ==
    \A t \in pending \ {s} : {s, t} \in Conflicts => <<s, t>> \in Before

\* The executor may start any runnable system.  Orders that differ only in the
\* position of an independent system reach the same state, so of those one is
\* explored: the independent runnable system registered first runs first.
MayRun(s) ==
    LET free == {i \in 1..Len(Registration) :
                    Runnable(Registration[i]) /\ Independent(Registration[i])}
    IN /\ phase # "idle"
       /\ Runnable(s)
       /\ free # {} => s = Registration[CHOOSE i \in free : \A j \in free : i <= j]

NoCommands ==
    [despawn |-> {}, paddles |-> {}, balls |-> {}, enemies |-> {}, boards |-> {},
     particles |-> {}, resetCounter |-> FALSE]

NoEvLog == [sent |-> 0, game_over |-> 0, setup_resetable |-> 0]

\* The id of the k-th entity reserved by the running pass (pass 0 is setup).
NewId(k) == <<tick + 1, k>>

\* -------------------------------------------------------------- spawning
\* The Resetable entities spawned by setup and, per event, by setup_resetable:
\* the paddle, the ball, the 9 x 8 enemies and the scoreboard label, with ids
\* pass.(base + 1) .. pass.(base + PlayfieldSize).
PlayfieldSize == 3 + EnemyCount

NewPaddles(pass, base) == {[id |-> <<pass, base + 1>>, x |-> 0, y |-> PaddleY]}

NewBalls(pass, base) ==
    {[id |-> <<pass, base + 2>>, x |-> BALL_STARTING_X * U, y |-> BALL_STARTING_Y * U,
      vx |-> BALL_INITIAL_SPEED, vy |-> -BALL_INITIAL_SPEED]}

NewEnemies(pass, base) ==
    {[id |-> <<pass, base + 3 + EnemyId(i, j)>>, n |-> EnemyId(i, j),
      x |-> EnemyX(i), y |-> EnemyY(j)] :
        i \in 0..(ENEMY_COLUMNS - 1), j \in 0..(ENEMY_ROWS - 1)}

NewBoards(pass, base) == {[id |-> <<pass, base + 3 + EnemyCount>>, text |-> InitialText]}

\* The three walls and the lava spawned by setup.
NewStatics ==
    LET wallLen == ((TOP_WALL - BOTTOM_WALL) + WALL_THICKNESS) * U
        wallWid == ((RIGHT_WALL - LEFT_WALL) + WALL_THICKNESS) * U
    IN {[id |-> <<0, 1>>, kind |-> "wall", x |-> LEFT_WALL * U, y |-> 0,
         w |-> WALL_THICKNESS * U, h |-> wallLen],
        [id |-> <<0, 2>>, kind |-> "wall", x |-> RIGHT_WALL * U, y |-> 0,
         w |-> WALL_THICKNESS * U, h |-> wallLen],
        [id |-> <<0, 3>>, kind |-> "wall", x |-> 0, y |-> TOP_WALL * U,
         w |-> wallWid, h |-> WALL_THICKNESS * U],
        [id |-> <<0, 4>>, kind |-> "lava", x |-> 0, y |-> LAVA_Y_U * V,
         w |-> LAVA_SIZE_X_U * V, h |-> LAVA_SIZE_Y_U * V]}

MovementKeys == {"A", "D"}

\* The value of held before the frame's keys are read.
Unread == {"unread"}

StateKeys == {"Key1", "Key2"}

\* ------------------------------------------------------------------ Init
\* The world after the startup system setup, in the first frame's idle point,
\* with bs for its balls.
Started(bs) ==
    /\ appState = "InGame"
    /\ scheduled = "None"
    /\ fault = FALSE
    /\ statics = NewStatics
    /\ paddles = NewPaddles(0, 4)
    /\ balls = bs
    /\ enemies = NewEnemies(0, 4)
    /\ boards = NewBoards(0, 4)
    /\ particles = {}
    /\ counter = 0
    /\ evOld = 0
    /\ evNew = 0
    /\ unread = [game_over |-> 0, setup_resetable |-> 0]
    /\ phase = "idle"
    /\ pending = {}
    /\ held = Unread
    /\ pressed = {}
    /\ commands = NoCommands
    /\ serial = 0
    /\ tick = 0
    /\ frameState = "InGame"
    /\ pressFrames = 0
    /\ hitLog = <<>>
    /\ evLog = NoEvLog

Init == Started(NewBalls(0, 4))

\* ------------------------------------------------------------- the frame
\* What every pass starts from: nothing has run, the command buffers are empty.
StartPass(state) ==
    /\ phase' = state
    /\ pending' = SystemsOf(state)
    /\ commands' = NoCommands
    /\ serial' = 0
    /\ hitLog' = <<>>
    /\ evLog' = NoEvLog

\* A frame begins: Events::<GameOverEvent>::update_system (added by add_event to
\* the First stage) drops the events of the frame before the last and keeps the
\* last frame's; the input provider reports the keys; the Update stage starts
\* the pass of the current state.
BeginFrame(maxTicks, maxPress) ==
    /\ phase = "idle"
    /\ ~fault
    /\ appState = "InGame" => tick < maxTicks
    /\ \E k \in SUBSET StateKeys :
          /\ k # {} => pressFrames < maxPress
          /\ pressed' = k
          /\ pressFrames' = IF k # {} THEN pressFrames + 1 ELSE pressFrames
    /\ evOld' = evNew
    /\ evNew' = 0
    /\ unread' = [r \in DOMAIN unread |-> Min(unread[r], evNew)]
    /\ frameState' = appState
    /\ StartPass(appState)
    /\ UNCHANGED <<appState, scheduled, fault, world, tick, held>>

\* ----------------------------------------------------------- the systems
Done(s) == pending' = pending \ {s}

\* A paddle movement that leaves out the clamp.
MovedPaddlesUnclamped(h) ==
    LET direction == (IF "A" \in h THEN -1 ELSE 0) + (IF "D" \in h THEN 1 ELSE 0)
        step == (direction * PLAYER_SPEED * U) \div TICKS_PER_SECOND
    IN {[p EXCEPT !.x = p.x + step] : p \in paddles}

\* The paddles after player_movement with the keys h held.
MovedPaddles(h) ==
    LET direction == (IF "A" \in h THEN -1 ELSE 0) + (IF "D" \in h THEN 1 ELSE 0)
        step == (direction * PLAYER_SPEED * U) \div TICKS_PER_SECOND
    IN {[p EXCEPT !.x = Clamp(p.x + step, LeftBound, RightBound)] : p \in paddles}

\* The held keys are the frame's: they are drawn when the frame's first pass
\* reads them, and kept for the frame's later passes, which only a frame with
\* both Key1 and Key2 pressed can have.
\* With limited, a movement key is held in none but the first maxMove ticks.
player_movement(limited, maxMove) ==
    /\ MayRun("player_movement")
    /\ \E h \in SUBSET MovementKeys :
          /\ held # Unread => h = held
          /\ (limited /\ held = Unread /\ h # {}) => tick < maxMove
          /\ paddles' = MovedPaddles(h)
          /\ held' = IF pressed = StateKeys THEN h ELSE Unread
    /\ Done("player_movement")
    /\ UNCHANGED <<appState, scheduled, fault, statics, balls, enemies, boards,
                   particles, counter, evOld, evNew, unread, phase, pressed,
                   commands, serial, tick, frameState, pressFrames, hitLog, evLog>>

\* Query<(&mut Transform, &Velocity)>: the balls are the entities with a Velocity.
ball_movement ==
    /\ MayRun("ball_movement")
    /\ balls' = {[b EXCEPT !.x = b.x + (b.vx * (U \div V)) \div TICKS_PER_SECOND,
                           !.y = b.y + (b.vy * (U \div V)) \div TICKS_PER_SECOND] : b \in balls}
    /\ Done("ball_movement")
    /\ UNCHANGED <<appState, scheduled, fault, statics, paddles, enemies, boards,
                   particles, counter, evOld, evNew, unread, phase, held, pressed,
                   commands, serial, tick, frameState, pressFrames, hitLog, evLog>>

\* collider_query: the entities With<Collider>, as [id, kind, x, y, w, h].
Colliders ==
    statics
    \cup {[id |-> p.id, kind |-> "paddle", x |-> p.x, y |-> p.y,
           w |-> PLAYER_SIZE_X * U, h |-> PLAYER_SIZE_Y * U] : p \in paddles}
    \cup {[id |-> e.id, kind |-> "enemy", x |-> e.x, y |-> e.y,
           w |-> ENEMY_SIZE_X * U, h |-> ENEMY_SIZE_Y * U] : e \in enemies}

\* collide(ball_transform.translation, ball_size, transform.translation, scale)
Touch(b, c) ==
    Collide(b.x, b.y, BALL_SIZE_XY * U, BALL_SIZE_XY * U, c.x, c.y, c.w, c.h)

RECURSIVE HitTrace(_, _, _)
\* The inner loop of check_for_collisions for ball b entering with velocity v,
\* over the colliders cs it touches, in iteration order: one entry per hit.
HitTrace(b, v, cs) ==
    IF cs = <<>>
    THEN <<>>
    ELSE LET c == Head(cs)
             side == Touch(b, c)
             after == Reflect(side, v)
         IN <<[ball |-> b.id, collider |-> c.id, kind |-> c.kind, x |-> c.x,
               y |-> c.y, side |-> side, before |-> v, after |-> after]>>
            \o HitTrace(b, after, Tail(cs))

\* The hits of ball b when the collider query iterates in the order ord.
BallTrace(b, ord) ==
    HitTrace(b, <<b.vx, b.vy>>, SelectSeq(ord, LAMBDA c : Touch(b, c) # "None"))

RECURSIVE CollisionLog(_, _)
\* The outer loop: the hits of every ball of the sequence bs.
CollisionLog(bs, ord) ==
    IF bs = <<>> THEN <<>> ELSE BallTrace(Head(bs), ord) \o CollisionLog(Tail(bs), ord)

\* The ball after its hits.
Bounced(b, ord) ==
    LET t == BallTrace(b, ord)
    IN IF t = <<>> THEN b ELSE [b EXCEPT !.vx = t[Len(t)].after[1], !.vy = t[Len(t)].after[2]]

\* A score that counts every hit, whatever the collider.
ScoredAnyHit(cnt, log) == cnt + SCORE_PER_ENEMY * Len(log)

\* counter.counter += 50 in the enemy branch, over the hits of log.
Scored(cnt, log) ==
    cnt + SCORE_PER_ENEMY * Len(SelectSeq(log, LAMBDA e : e.kind = "enemy"))

\* The half-open ranges rand_x and rand_y are drawn from, for a particle of an
\* enemy at (px, py): [from, to) on each axis.
ParticleRanges(px, py) ==
    [xFrom |-> px - PARTICLE_SPREAD_X * U, xTo |-> px + PARTICLE_SPREAD_X * U,
     yFrom |-> py - PARTICLE_SPREAD_Y * U, yTo |-> py + PARTICLE_SPREAD_Y * U]

\* spawn_particles(pos, commands) with particle_count drawn as count; its
\* entities are the pass's (base + 1)-th to (base + count)-th.  Each particle's
\* rand_x and rand_y are drawn independently and uniformly from their ranges,
\* and no system ever reads a particle's position: the particle keeps, for its
\* position, the ranges its coordinates lie in, which stand for every point
\* the generator can draw.
spawn_particles(px, py, base, count) ==
    {[id |-> NewId(base + i),
      at |-> ParticleRanges(px, py),
      w |-> PARTICLE_SIZE_XY * U, h |-> PARTICLE_SIZE_XY * U,
      timer |-> [elapsed |-> 0, finished |-> FALSE]] : i \in 1..count}

\* A draw that takes the upper end of gen_range(2..7) for inclusive.
ParticleDrawsInclusive == PARTICLE_COUNT_MIN..(PARTICLE_COUNT_MAX + 1)

\* The particle counts rng.gen_range(2..7) may draw.
ParticleDraws == PARTICLE_COUNT_MIN..PARTICLE_COUNT_MAX

RECURSIVE Sum(_, _)
\* The sum of the first n entries of the sequence of numbers f.
Sum(f, n) == IF n = 0 THEN 0 ELSE Sum(f, n - 1) + f[n]

\* Every destroyed enemy is one call of spawn_particles, which draws its own
\* particle count.
check_for_collisions ==
    /\ MayRun("check_for_collisions")
    /\ LET touched == {c \in Colliders : \E b \in balls : Touch(b, c) # "None"}
           bs == CHOOSE f \in Orders(balls) : TRUE
       IN \E ord \in Orders(touched) :
            LET log == CollisionLog(bs, ord)
                kills == SelectSeq(log, LAMBDA e : e.kind = "enemy")
                lavas == SelectSeq(log, LAMBDA e : e.kind = "lava")
            IN \E draws \in [1..Len(kills) -> ParticleDraws] :
                 /\ balls' = {Bounced(b, ord) : b \in balls}
                 /\ counter' = Scored(counter, log)
                 /\ evNew' = evNew + Len(lavas)
                 /\ unread' = [r \in DOMAIN unread |-> unread[r] + Len(lavas)]
                 /\ commands' =
                       [commands EXCEPT
                          !.despawn = @ \cup {kills[k].collider : k \in 1..Len(kills)},
                          !.particles = @ \cup UNION
                              {spawn_particles(kills[k].x, kills[k].y,
                                               serial + Sum(draws, k - 1), draws[k]) :
                                 k \in 1..Len(kills)}]
                 /\ serial' = serial + Sum(draws, Len(kills))
                 /\ hitLog' = log
                 /\ evLog' = [evLog EXCEPT !.sent = Len(lavas)]
    /\ Done("check_for_collisions")
    /\ UNCHANGED <<appState, scheduled, fault, statics, paddles, enemies, boards,
                   particles, evOld, phase, held, pressed, tick, frameState,
                   pressFrames>>

update_score_board ==
    /\ MayRun("update_score_board")
    /\ boards' = {[b EXCEPT !.text = FormatCounter(counter)] : b \in boards}
    /\ Done("update_score_board")
    /\ UNCHANGED <<appState, scheduled, fault, statics, paddles, balls, enemies,
                   particles, counter, evOld, evNew, unread, phase, held, pressed,
                   commands, serial, tick, frameState, pressFrames, hitLog, evLog>>

\* time.delta() is whatever the time provider reports, one of deltas (drawn per
\* pass: the passes of one frame are not held to the same value).
tick_particles_lifetime(deltas) ==
    /\ MayRun("tick_particles_lifetime")
    /\ \E delta \in deltas :
         LET ticked == {[p EXCEPT !.timer = TimerTick(p.timer, delta)] : p \in particles}
         IN /\ particles' = ticked
            /\ commands' = [commands EXCEPT
                              !.despawn = @ \cup {p.id : p \in {q \in ticked : q.timer.finished}}]
    /\ Done("tick_particles_lifetime")
    /\ UNCHANGED <<appState, scheduled, fault, statics, paddles, balls, enemies,
                   boards, counter, evOld, evNew, unread, phase, held, pressed,
                   serial, tick, frameState, pressFrames, hitLog, evLog>>

update_particles_size ==
    /\ MayRun("update_particles_size")
    /\ particles' = {[p EXCEPT !.w = p.w + SCALING_FACTOR_U * V, !.h = p.h + SCALING_FACTOR_U * V] :
                       p \in particles}
    /\ Done("update_particles_size")
    /\ UNCHANGED <<appState, scheduled, fault, statics, paddles, balls, enemies,
                   boards, counter, evOld, evNew, unread, phase, held, pressed,
                   commands, serial, tick, frameState, pressFrames, hitLog, evLog>>

\* State::set(target).unwrap() on st = [scheduled, fault]: set() fails when the
\* state is already target or a change is already queued, and unwrap() panics.
SetState(st, target) ==
    IF appState = target \/ st.scheduled # "None"
    THEN [st EXCEPT !.fault = TRUE]
    ELSE [st EXCEPT !.scheduled = target]

change_game_state ==
    /\ MayRun("change_game_state")
    /\ LET s0 == [scheduled |-> scheduled, fault |-> fault]
           s1 == IF "Key1" \in pressed /\ appState = "InGame"
                 THEN SetState(s0, "Paused")
                 ELSE s0
           s2 == IF ~s1.fault /\ "Key2" \in pressed /\ appState = "Paused"
                 THEN SetState(s1, "InGame")
                 ELSE s1
       IN /\ scheduled' = s2.scheduled
          /\ fault' = s2.fault
    /\ Done("change_game_state")
    /\ UNCHANGED <<appState, world, evOld, evNew, unread, phase, held, pressed,
                   commands, serial, tick, frameState, pressFrames, hitLog, evLog>>

\* One playfield per unread event, spawned through the command buffer.
setup_resetable ==
    /\ MayRun("setup_resetable")
    /\ LET n == unread.setup_resetable
           bases == {serial + k * PlayfieldSize : k \in 0..(n - 1)}
       IN /\ commands' =
                [commands EXCEPT
                   !.paddles = @ \cup UNION {NewPaddles(tick + 1, b) : b \in bases},
                   !.balls = @ \cup UNION {NewBalls(tick + 1, b) : b \in bases},
                   !.enemies = @ \cup UNION {NewEnemies(tick + 1, b) : b \in bases},
                   !.boards = @ \cup UNION {NewBoards(tick + 1, b) : b \in bases},
                   !.resetCounter = @ \/ n > 0]
          /\ serial' = serial + n * PlayfieldSize
          /\ evLog' = [evLog EXCEPT !.setup_resetable = n]
    /\ unread' = [unread EXCEPT !.setup_resetable = 0]
    /\ Done("setup_resetable")
    /\ UNCHANGED <<appState, scheduled, fault, world, evOld, evNew, phase, held,
                   pressed, tick, frameState, pressFrames, hitLog>>

\* A query that leaves out the With<Resetable> filter.
EveryEntity == statics \cup paddles \cup balls \cup enemies \cup boards \cup particles

\* Query<Entity, With<Resetable>>
Resetables == paddles \cup balls \cup enemies \cup boards

game_over ==
    /\ MayRun("game_over")
    /\ LET n == unread.game_over
       IN /\ commands' = [commands EXCEPT
                            !.despawn = @ \cup (IF n > 0 THEN {e.id : e \in Resetables} ELSE {})]
          /\ evLog' = [evLog EXCEPT !.game_over = n]
    /\ unread' = [unread EXCEPT !.game_over = 0]
    /\ Done("game_over")
    /\ UNCHANGED <<appState, scheduled, fault, world, evOld, evNew, phase, held,
                   pressed, serial, tick, frameState, pressFrames, hitLog>>

\* -------------------------------------------------------- the end of a pass
\* A command application that drops the despawn commands.
AppliedWithoutDespawn(S, added) == S \cup added

\* What is left of the entity set S after the despawns, and what is added to it.
Applied(S, added) == {e \in S : e.id \notin commands.despawn} \cup added

\* Every system of the pass has run: the stage applies the command buffers, and
\* the state driver either starts the pass of a newly scheduled state in the
\* same frame or ends the frame.
EndPass(maxTicks) ==
    /\ phase # "idle"
    /\ pending = {}
    /\ ~fault
    /\ scheduled = "InGame" => tick < maxTicks
    /\ statics' = Applied(statics, {})
    /\ paddles' = Applied(paddles, commands.paddles)
    /\ balls' = Applied(balls, commands.balls)
    /\ enemies' = Applied(enemies, commands.enemies)
    /\ boards' = Applied(boards, commands.boards)
    /\ particles' = Applied(particles, commands.particles)
    /\ counter' = IF commands.resetCounter THEN 0 ELSE counter
    /\ tick' = IF phase = "InGame" THEN tick + 1 ELSE tick
    /\ IF scheduled # "None"
       THEN /\ appState' = scheduled
            /\ scheduled' = "None"
            /\ StartPass(scheduled)
            /\ UNCHANGED <<held, pressed>>
       ELSE /\ phase' = "idle"
            /\ held' = Unread
            /\ pressed' = {}
            /\ commands' = NoCommands
            /\ serial' = 0
            /\ UNCHANGED <<appState, scheduled, pending, hitLog, evLog>>
    /\ UNCHANGED <<fault, evOld, evNew, unread, frameState, pressFrames>>

\* ---------------------------------------------------------- specifications
Step(maxTicks, limited, maxMove, maxPress, deltas) ==
    \/ BeginFrame(maxTicks, maxPress)
    \/ player_movement(limited, maxMove)
    \/ ball_movement
    \/ check_for_collisions
    \/ update_score_board
    \/ tick_particles_lifetime(deltas)
    \/ update_particles_size
    \/ change_game_state
    \/ setup_resetable
    \/ game_over
    \/ EndPass(maxTicks)

\* A long game: the movement keys held in the leading frames only, no state key
\* pressed.
Next == Step(MaxTicks, TRUE, MaxMoveFrames, 0, DeltaSamples)

Spec == Init /\ [][Next]_vars

\* A game with the state keys: Key1 and Key2 pressed in a few frames, the paddle
\* left alone.
NextPause == Step(MaxPauseTicks, TRUE, 0, MaxPressFrames, DeltaSamples)

SpecPause == Init /\ [][NextPause]_vars

\* A game with the movement keys free in every frame, each frame taking the
\* 1/60 s of TIME_STEP.
NextPaddle == Step(MaxPaddleTicks, FALSE, 0, 0, {FrameTime})

SpecPaddle == Init /\ [][NextPaddle]_vars

\* A game without key input, its frames and systems never starved: the app's
\* runner starts frame after frame, a pass runs each of its systems, and every
\* frame takes time.
NextLive == Step(MaxLiveTicks, TRUE, 0, 0, DeltaSamples \ {0})

SpecLive == Init /\ [][NextLive]_vars /\ WF_vars(NextLive)

\* The velocities a single hit is tried with: each sign of each component.
ReflectVelocities == {-BALL_INITIAL_SPEED, 0, BALL_INITIAL_SPEED}

\* Ball positions that overlap the paddle's box by 10 world units on its left,
\* its right, its top and its bottom, and nothing else.
ReflectPlacements ==
    LET dx == ((PLAYER_SIZE_X + BALL_SIZE_XY) \div 2 - 10) * U
        dy == ((PLAYER_SIZE_Y + BALL_SIZE_XY) \div 2 - 10) * U
    IN {<<-dx, PaddleY>>, <<dx, PaddleY>>, <<0, PaddleY + dy>>, <<0, PaddleY - dy>>}

\* The game entered with the ball next to the paddle, at any of the placements
\* and with any of the velocities.
InitReflect ==
    \E pos \in ReflectPlacements : \E vx, vy \in ReflectVelocities :
        Started({[id |-> <<0, 6>>, x |-> pos[1], y |-> pos[2], vx |-> vx, vy |-> vy]})

NextReflect == Step(MaxReflectTicks, TRUE, 0, 0, DeltaSamples)

SpecReflect == InitReflect /\ [][NextReflect]_vars

\* Ball positions beside the vertically adjacent enemies 40 and 49: left and
\* right of them, level with the gap between their rows and nearly one tick's
\* travel from their edge, in the gap to the next column, where the ball's box
\* overlaps two enemies of one column at once.
PlacedPositions ==
    LET reach == ((ENEMY_SIZE_X + BALL_SIZE_XY) * U) \div 2 + BALL_INITIAL_SPEED - 13 * V
        between == (EnemyY(4) + EnemyY(5)) \div 2
    IN {<<EnemyX(4) - reach, between>>, <<EnemyX(4) + reach, between>>}

\* The collision check entered with the ball in the playfield of setup at one
\* of these positions, with any of the velocities, each frame taking the 1/60 s
\* of TIME_STEP: a start wider than setup's, for statements that hold of every
\* tick whatever the ball's position and velocity.
InitPlaced ==
    \E pos \in PlacedPositions : \E vx, vy \in ReflectVelocities :
        Started({[id |-> <<0, 6>>, x |-> pos[1], y |-> pos[2], vx |-> vx, vy |-> vy]})

NextPlaced == Step(MaxPlacedTicks, TRUE, 0, 0, {FrameTime})

SpecPlaced == InitPlaced /\ [][NextPlaced]_vars

\* A short game with both kinds of keys: the movement keys held in the leading
\* frames, which makes the ball miss the paddle, and the state keys pressed in a
\* few frames.
NextLost == Step(MaxLostTicks, TRUE, MaxLostMoves, MaxLostPresses, DeltaSamples)

SpecLost == Init /\ [][NextLost]_vars

\* ------------------------------------------------------------------ claims
Ids(S) == {e.id : e \in S}

\* The pass's systems have all run and its commands are not applied yet.
PassDone(state) == phase = state /\ pending = {}

\* The enemies whose box overlaps a ball's box.
Overlapped ==
    {e \in enemies :
        \E b \in balls :
            Collide(b.x, b.y, BALL_SIZE_XY * U, BALL_SIZE_XY * U,
                    e.x, e.y, ENEMY_SIZE_X * U, ENEMY_SIZE_Y * U) # "None"}

\* C1: whatever the order of the systems in a tick, a game-over notification
\* sent by check_for_collisions is read by game_over and by setup_resetable in
\* that same tick: when the tick's systems have all run, neither reader has a
\* notification left to read.
C1_ResetInSameTick ==
    PassDone("InGame") => unread.game_over = 0 /\ unread.setup_resetable = 0

\* A reader of the notification has acted on it in the pass that just ended.
ResetApplied ==
    phase = "idle" /\ (evLog.game_over > 0 \/ evLog.setup_resetable > 0)

\* C2: once a reset is applied, the Resetable entities are exactly one fresh
\* playfield, all of it created by the reset's pass: one paddle at (0, -240),
\* one ball at (0, -150) with the initial velocity, the 72 enemies of the grid,
\* one scoreboard label, and the counter is 0.
C2_CompleteReset ==
    ResetApplied =>
        /\ \A e \in Resetables : e.id[1] = tick
        /\ Cardinality(paddles) = 1
        /\ \A p \in paddles : p.x = 0 /\ p.y = -240 * U
        /\ Cardinality(balls) = 1
        /\ \A b \in balls :
              /\ b.x = 0 /\ b.y = -150 * U
              /\ b.vx = BALL_INITIAL_SPEED /\ b.vy = -BALL_INITIAL_SPEED
        /\ Cardinality(enemies) = 72
        /\ {<<e.n, e.x, e.y>> : e \in enemies}
              = {<<i + 9 * j, (-350 + 90 * i) * U, (250 - 40 * j) * U>> :
                    i \in 0..8, j \in 0..7}
        /\ Cardinality(boards) = 1
        /\ counter = 0

\* C3: whatever keys are held, in every tick and across resets, the x position
\* of every paddle lies within [leftBound, rightBound] = [-375, 375].
C3_PaddleWithinBounds ==
    /\ LeftBound = -375 * U
    /\ RightBound = 375 * U
    /\ \A p \in paddles : LeftBound <= p.x /\ p.x <= RightBound

\* A paddle created by a reset has been moved by player_movement and stands
\* exactly at a bound.
C3_Witness ==
    /\ phase = "InGame"
    /\ "player_movement" \notin pending
    /\ \E p \in paddles : p.id[1] > 0 /\ p.x \in {LeftBound, RightBound}

\* The per-side table: the velocity after a hit of the given side.
TableVelocity(side, v) ==
    <<IF (side = "Left" /\ v[1] > 0) \/ (side = "Right" /\ v[1] < 0) THEN -v[1] ELSE v[1],
      IF (side = "Top" /\ v[2] < 0) \/ (side = "Bottom" /\ v[2] > 0) THEN -v[2] ELSE v[2]>>

\* C4: the velocity of a ball after a single classified hit is the velocity it
\* had before, with vx negated iff the side is Left and vx > 0 or Right and
\* vx < 0, and vy negated iff the side is Top and vy < 0 or Bottom and vy > 0.
C4_ReflectionTable ==
    (phase = "InGame" /\ "check_for_collisions" \notin pending /\ Len(hitLog) = 1) =>
        \A b \in balls :
            b.id = hitLog[1].ball =>
                /\ hitLog[1].side \in {"Left", "Right", "Top", "Bottom"}
                /\ <<b.vx, b.vy>> = TableVelocity(hitLog[1].side, hitLog[1].before)

\* A ball moving right has hit the left side of the paddle and moves left now,
\* its vertical speed being what it was.
C4_Witness ==
    /\ phase = "InGame"
    /\ "check_for_collisions" \notin pending
    /\ Len(hitLog) = 1
    /\ hitLog[1].side = "Left"
    /\ hitLog[1].before[1] > 0
    /\ \E b \in balls :
          b.id = hitLog[1].ball /\ b.vx = -hitLog[1].before[1] /\ b.vy = hitLog[1].before[2]

\* C5: the counter changes only in check_for_collisions, by 50 for each enemy
\* the ball destroys, and when a reset is applied, after which it is 0, also if
\* an enemy was hit in the reset's tick.
C5_ScoreSteps ==
    [][IF "check_for_collisions" \in pending /\ "check_for_collisions" \notin pending'
       THEN counter' = counter + 50 * Cardinality(Overlapped)
       ELSE IF PassDone("InGame") /\ commands.resetCounter /\ tick' # tick
            THEN counter' = 0
            ELSE counter' = counter]_vars

\* A life in which an enemy was destroyed ends: the tick's systems have run,
\* the counter stands at 50 and the reset that will make it 0 is queued.
C5_Witness ==
    /\ PassDone("InGame")
    /\ commands.resetCounter
    /\ counter = SCORE_PER_ENEMY

\* C6: there are never more than 72 live enemies.
C6_EnemyBound == Cardinality(enemies) <= 72

\* C7: in a tick in which no game-over notification is sent or read, the
\* enemies removed when the tick ends are exactly the enemies whose box the
\* ball's box overlapped, and every other enemy stays as it is.
C7_RemovedAreHit ==
    [][(PassDone("InGame") /\ evLog = NoEvLog /\ tick' # tick) =>
          enemies' = enemies \ Overlapped]_vars

\* A tick without game-over has ended in which the ball hit one enemy: that
\* enemy is gone and the 71 others are left.
C7_Witness ==
    /\ phase = "idle"
    /\ evLog = NoEvLog
    /\ Len(hitLog) = 1
    /\ hitLog[1].kind = "enemy"
    /\ hitLog[1].collider \notin Ids(enemies)
    /\ Cardinality(enemies) = 71

\* C8: a step taken while the state is Paused leaves the balls, the paddles,
\* the enemies, the particles, the counter and the scoreboard text as they
\* are; it can change the state only to InGame, on a press of Key2.
C8_PausedChangesNothing ==
    [][appState = "Paused" =>
          /\ UNCHANGED world
          /\ appState' # appState => appState' = "InGame" /\ "Key2" \in pressed]_vars

\* A frame that began Paused has run its pass, with a score and live particles
\* on the field.
C8_Witness ==
    /\ appState = "Paused"
    /\ frameState = "Paused"
    /\ PassDone("Paused")
    /\ counter > 0
    /\ particles # {}

\* C9: no press faults; the state leaves Running only in a frame with Key1
\* pressed and Paused only in a frame with Key2 pressed; and the key that is
\* the wrong one for the state it is pressed in is ignored: a frame that began
\* Running never resumes, a frame that began Paused never pauses.
C9_WrongKeyIgnored ==
    /\ ~fault
    /\ phase # "idle" =>
          /\ (frameState = "InGame" /\ "Key1" \notin pressed) =>
                appState = "InGame" /\ scheduled = "None"
          /\ (frameState = "Paused" /\ "Key2" \notin pressed) =>
                appState = "Paused" /\ scheduled = "None"
          /\ frameState = "InGame" => scheduled # "InGame"
          /\ frameState = "Paused" => scheduled # "Paused"

\* C10: a particle's timer is finished exactly when its elapsed time has
\* reached 100 ms, and a particle with a finished timer exists only in the
\* rest of the tick that finished it, its despawn queued; so in a game that
\* keeps running (here: has the ticks left to run that a lifetime takes at the
\* shortest frame time) with a positive frame time, the particles on the field
\* are eventually all removed.
C10_ParticleLifetime ==
    /\ [](\A p \in particles :
             /\ p.timer.finished <=> p.timer.elapsed >= Lifetime
             /\ p.timer.finished =>
                   /\ phase = "InGame"
                   /\ "tick_particles_lifetime" \notin pending
                   /\ p.id \in commands.despawn)
    /\ (particles # {} /\ tick + Lifetime \div FrameTime <= MaxLiveTicks) ~> (particles = {})

\* A particle's timer has reached its lifetime in this tick and its despawn is
\* queued.
C10_Witness ==
    /\ phase = "InGame"
    /\ \E p \in particles :
          p.timer.finished /\ p.timer.elapsed = Lifetime /\ p.id \in commands.despawn

\* C11: in every tick, whatever the order of its systems, check_for_collisions
\* runs only once player_movement and ball_movement have run, so it reads the
\* positions this tick's movement produced.
C11_MovementBeforeCollision ==
    [][("check_for_collisions" \in pending /\ "check_for_collisions" \notin pending') =>
          "player_movement" \notin pending /\ "ball_movement" \notin pending]_vars

\* check_for_collisions has found the ball, moved by this tick's ball_movement,
\* on the paddle, which this tick's player_movement has moved.
C11_Witness ==
    /\ phase = "InGame"
    /\ "check_for_collisions" \notin pending
    /\ \E k \in 1..Len(hitLog) :
          hitLog[k].kind = "paddle" /\ hitLog[k].x # 0 /\ hitLog[k].x \in {p.x : p \in paddles}

\* C12: the absolute values of the ball's vx and vy are the initial ones, after
\* any ticks, collisions and resets.
C12_SpeedKept ==
    \A b \in balls :
        Abs(b.vx) = BALL_INITIAL_SPEED /\ Abs(b.vy) = BALL_INITIAL_SPEED

\* A ball created by a reset has been turned upwards by a collision.
C12_Witness ==
    \E b \in balls : b.id[1] > 0 /\ b.vy = BALL_INITIAL_SPEED

\* The particles queued by the running pass within 30 units horizontally and 20
\* units vertically of the collider of the hit h.
ParticlesNear(h) ==
    {p \in commands.particles :
        /\ h.x - 30 * U <= p.at.xFrom /\ p.at.xFrom < p.at.xTo /\ p.at.xTo <= h.x + 30 * U
        /\ h.y - 20 * U <= p.at.yFrom /\ p.at.yFrom < p.at.yTo /\ p.at.yTo <= h.y + 20 * U}

\* C13: every enemy destruction spawns between 2 and 6 particles, each within
\* 30 units horizontally and 20 units vertically of the enemy and each with a
\* fresh, unexpired timer; nothing else spawns a particle.
C13_ParticlesPerEnemy ==
    /\ [](phase = "InGame" =>
             LET kills == {k \in 1..Len(hitLog) : hitLog[k].kind = "enemy"}
             IN /\ \A k \in kills : Cardinality(ParticlesNear(hitLog[k])) \in 2..6
                /\ commands.particles = UNION {ParticlesNear(hitLog[k]) : k \in kills}
                /\ \A p \in commands.particles :
                      p.timer = [elapsed |-> 0, finished |-> FALSE])
    /\ [][/\ Ids(particles') \subseteq Ids(particles) \cup Ids(commands.particles)
          /\ commands'.particles # commands.particles =>
                \/ "check_for_collisions" \in pending /\ "check_for_collisions" \notin pending'
                \/ commands'.particles = {}]_vars

\* The destruction of one enemy has queued six particles around it.
C13_Witness ==
    /\ phase = "InGame"
    /\ Len(hitLog) = 1
    /\ hitLog[1].kind = "enemy"
    /\ Cardinality(ParticlesNear(hitLog[1])) = 6

\* C14: exactly the three walls and the one hazard of setup exist, where and as
\* large as setup made them, after any ticks, enemy hits and resets.
C14_WallsAndHazardStay ==
    /\ statics = NewStatics
    /\ Cardinality({c \in statics : c.kind = "wall"}) = 3
    /\ Cardinality({c \in statics : c.kind = "lava"}) = 1
    /\ \A c \in Colliders : c.kind \in {"wall", "lava"} => c \in NewStatics

\* A reset that ends a second life has been applied (no life ends before tick
\* 33), and the walls and the hazard are the ones of setup.
C14_Witness ==
    /\ ResetApplied
    /\ tick >= 66
    /\ \A e \in Resetables : e.id[1] = tick
    /\ statics = NewStatics

\* The hits of ball id on side s that turned the ball, among the pass's hits.
Turns(id, s) ==
    {k \in 1..Len(hitLog) :
        hitLog[k].ball = id /\ hitLog[k].side = s /\ hitLog[k].after # hitLog[k].before}

\* C18: of the hits of one tick that are classified with the same side at most
\* one negates the ball's velocity component, and the reflection rule of a
\* side applied to the velocity after a hit of that side changes nothing.
C18_SameSideOnce ==
    /\ \A b \in balls : \A s \in {"Left", "Right", "Top", "Bottom"} :
          Cardinality(Turns(b.id, s)) <= 1
    /\ \A k \in 1..Len(hitLog) :
          Reflect(hitLog[k].side, hitLog[k].after) = hitLog[k].after

\* The ball has hit the left side of two enemies in one tick: the first hit
\* turned it, the second found it moving away and left it alone.
C18_Witness ==
    /\ phase = "InGame"
    /\ Len(hitLog) = 2
    /\ hitLog[1].side = "Left" /\ hitLog[2].side = "Left"
    /\ hitLog[1].ball = hitLog[2].ball
    /\ hitLog[1].after[1] = -hitLog[1].before[1]
    /\ hitLog[1].before[1] > 0
    /\ hitLog[2].after = hitLog[2].before

\* C17: at the end of every InGame tick the text of every scoreboard label is
\* the decimal string of the score counter.
C17_LabelShowsCounter ==
    (phase = "idle" /\ frameState = "InGame" /\ tick > 0) =>
        \A b \in boards : b.text = FormatCounter(counter)

\* C19: at every tick boundary the score counter is 50 times the number of
\* enemies missing from the 72 of a fresh playfield.
C19_ScoreCountsEnemies ==
    phase = "idle" => counter = SCORE_PER_ENEMY * (EnemyCount - Cardinality(enemies))

\* C20: a notification a reader has not read yet is never taken from it: the
\* number of notifications that game_over, or setup_resetable, still has to read
\* goes down only in a step of that system.
C20_NotificationKept ==
    [][\A r \in DOMAIN unread :
          unread'[r] < unread[r] => (r \in pending /\ r \notin pending')]_vars

=============================================================================
